---- MODULE Spec2Model ----
(***************************************************************************)
(* Time-tracking backend: the relational store (properties, employees,     *)
(* entries, entry_employees, activeTimers) and the HTTP handlers of the    *)
(* two server variants:                                                    *)
(*   - the transactional server (better-sqlite3, synchronous handlers,     *)
(*     db.transaction), src/unnamed/part_000 lines 64-304, on the schema   *)
(*     of src/unnamed/part_000 lines 1-63;                                 *)
(*   - the callback server (node-sqlite3, statements queued on one         *)
(*     connection, callbacks), src/unnamed/part_001.                       *)
(***************************************************************************)
EXTENDS Integers, Sequences, FiniteSets, TLC

VARIABLES db, last, sched, reqs

vars == <<db, last, sched, reqs>>

(***************************************************************************)
(* Bounds of the model.                                                    *)
(***************************************************************************)
\* largest AUTOINCREMENT id the entries table hands out
MaxEntryId == 2
\* largest AUTOINCREMENT id the properties table hands out
MaxPropertyId == 1
\* largest AUTOINCREMENT id the employees table hands out
MaxEmployeeId == 1
\* longest employees list of a request body
MaxListLen == 2
\* most rows the store holds, all five tables together
MaxRows == 3

(***************************************************************************)
(* Values of request bodies and path parameters.                           *)
(***************************************************************************)
Addresses == {"a1", "a2"}
Names == {"A", "B"}
\* ISO date texts compare as the days they name; a date is modelled by its day
Dates == {1}
Clients == {"c1"}
ServiceNames == {"mowing"}
Times == {"09:00"}
Hours == {"1.5"}
FullNames == {"Acme"}
TimerIds == {"t1", "t2"}

\* SQL NULL in an integer column (no row id is negative)
Null == 0 - 1

\* the decimal texts of the ids a path may name
DigitText == <<"1", "2", "3", "4", "5">>
PathIds == {DigitText[i] : i \in 1..MaxEntryId}

\* parseInt(req.params.id): the number a decimal text denotes; a text that is
\* no number gives NaN, which the driver binds as NULL
ParseInt(text) ==
    IF \E i \in 1..Len(DigitText) : DigitText[i] = text
    THEN CHOOSE i \in 1..Len(DigitText) : DigitText[i] = text
    ELSE Null

Range(f) == {f[i] : i \in DOMAIN f}

\* all sequences over S of length at most n
RECURSIVE SeqsUpTo(_, _)
SeqsUpTo(S, n) ==
    IF n = 0 THEN {<<>>}
    ELSE LET shorter == SeqsUpTo(S, n - 1)
         IN shorter \cup {Append(s, x) : s \in {t \in shorter : Len(t) = n - 1}, x \in S}

\* req.body.employees: a list of names, or absent (not iterable)
EmployeeInputs ==
    {[iterable |-> TRUE, items |-> l] : l \in SeqsUpTo(Names, MaxListLen)}
    \cup {[iterable |-> FALSE, items |-> <<>>]}

\* the body of POST /api/entries and PUT /api/entries/:id
EntryBodies ==
    [date : Dates, client : Clients, propertyAddress : Addresses,
     service : ServiceNames, timeIn : Times, timeOut : Times,
     totalHours : Hours, employees : EmployeeInputs]

(***************************************************************************)
(* JSON texts: a text is the sequence of its tokens.                       *)
(***************************************************************************)
\* a services mapping is the sequence of its (key, value) pairs; a body may
\* lack the field (undefined)
ServiceMaps == {<<<<"mowing", "true">>>>}
ServiceInputs == {[defined |-> TRUE, pairs |-> m] : m \in ServiceMaps}

RECURSIVE JoinPairs(_)
JoinPairs(pairs) ==
    IF pairs = <<>> THEN <<>>
    ELSE <<pairs[1][1], ":", pairs[1][2]>>
         \o (IF Len(pairs) > 1 THEN <<",">> \o JoinPairs(Tail(pairs)) ELSE <<>>)

\* the bug of a text that keeps only the first member of the mapping
StringifyFirstPair(m) ==
    IF m.defined THEN <<"{">> \o JoinPairs(IF Len(m.pairs) > 1 THEN <<m.pairs[1]>> ELSE m.pairs) \o <<"}">> ELSE <<>>

\* JSON.stringify(services) as the driver binds it: undefined stays undefined
\* and is bound as NULL (the empty text), an object becomes its text
StringifyMap(m) ==
    IF m.defined THEN <<"{">> \o JoinPairs(m.pairs) \o <<"}">> ELSE <<>>

RECURSIVE SplitPairs(_)
SplitPairs(tokens) ==
    IF Len(tokens) < 3 THEN <<>>
    ELSE <<<<tokens[1], tokens[3]>>>>
         \o (IF Len(tokens) > 4 THEN SplitPairs(SubSeq(tokens, 5, Len(tokens))) ELSE <<>>)

\* JSON.parse(p.services || '{}')
ParseMap(text) ==
    IF text = <<>> THEN [defined |-> TRUE, pairs |-> <<>>]
    ELSE [defined |-> TRUE, pairs |-> SplitPairs(SubSeq(text, 2, Len(text) - 1))]

RECURSIVE JoinItems(_)
JoinItems(items) ==
    IF items = <<>> THEN <<>>
    ELSE <<items[1]>> \o (IF Len(items) > 1 THEN <<",">> \o JoinItems(Tail(items)) ELSE <<>>)

\* JSON.stringify(employees) of a list of names
StringifyList(items) == <<"[">> \o JoinItems(items) \o <<"]">>

RECURSIVE SplitItems(_)
SplitItems(tokens) ==
    IF tokens = <<>> THEN <<>>
    ELSE <<tokens[1]>>
         \o (IF Len(tokens) > 2 THEN SplitItems(SubSeq(tokens, 3, Len(tokens))) ELSE <<>>)

\* JSON.parse(timer.employees)
ParseList(text) == SplitItems(SubSeq(text, 2, Len(text) - 1))

\* the body of POST /api/properties and PUT /api/properties/:id
PropertyBodies == [fullName : FullNames, address : Addresses, services : ServiceInputs]

\* the body of POST /api/timers
TimerBodies ==
    [startTime : Times, date : {1}, client : Clients, propertyAddress : {"a1"},
     service : ServiceNames, employees : {<<"A">>}]

(***************************************************************************)
(* The store: the five tables of the schema and the AUTOINCREMENT          *)
(* counters (sqlite_sequence). entry_employees and activeTimers have no    *)
(* INTEGER PRIMARY KEY: their rows are kept in rowid (insertion) order.    *)
(***************************************************************************)
EmptyStore ==
    [properties |-> {}, employees |-> {}, entries |-> {},
     entry_employees |-> <<>>, activeTimers |-> <<>>,
     seq |-> [properties |-> 0, employees |-> 0, entries |-> 0]]

RowCount(d) ==
    Cardinality(d.properties) + Cardinality(d.employees) + Cardinality(d.entries)
    + Len(d.entry_employees) + Len(d.activeTimers)

EntryIds(d) == {e.id : e \in d.entries}

EntryRow(id, body) ==
    [id |-> id, date |-> body.date, client |-> body.client,
     propertyAddress |-> body.propertyAddress, service |-> body.service,
     timeIn |-> body.timeIn, timeOut |-> body.timeOut, totalHours |-> body.totalHours]

\* the bug of numbering by the row count: an id can come back after a delete
NextEntryIdByCount(d) == Cardinality(d.entries) + 1

\* the id the next INSERT INTO entries gets: one more than the largest ever used
NextEntryId(d) == d.seq.entries + 1

\* the result of a statement: it ran (ok) and left the store d, or it raised
Ran(d) == [ok |-> TRUE, db |-> d]
Raised(d) == [ok |-> FALSE, db |-> d]

\* FOREIGN KEY(entry_id) REFERENCES entries(id), foreign_keys = ON: a child row
\* needs its parent unless its key is NULL
ForeignKeyHolds(d, entry_id) == entry_id = Null \/ entry_id \in EntryIds(d)

\* no join row references one of the entries ids (parent rows about to go)
Unreferenced(d, ids) ==
    \A i \in 1..Len(d.entry_employees) : d.entry_employees[i].entry_id \notin ids

\* INSERT INTO entries (date, ...) VALUES (...)
StmtInsertEntry(d, body) ==
    Ran([d EXCEPT !.entries = @ \cup {EntryRow(NextEntryId(d), body)},
                  !.seq.entries = NextEntryId(d)])

\* INSERT INTO entry_employees (entry_id, employee_name) VALUES (?, ?)
StmtInsertLink(d, entry_id, name) ==
    IF ForeignKeyHolds(d, entry_id)
    THEN Ran([d EXCEPT !.entry_employees =
                 Append(@, [entry_id |-> entry_id, employee_name |-> name])])
    ELSE Raised(d)

\* UPDATE entries SET date = ?, ... WHERE id = ?
StmtUpdateEntry(d, id, body) ==
    Ran([d EXCEPT !.entries =
            {IF e.id = id THEN EntryRow(id, body) ELSE e : e \in @}])

\* the bug of an update that keeps the old join rows
StmtKeepLinksOfEntry(d, id) == Ran(d)

\* the bug of a delete without its WHERE: the join rows of every entry go
StmtDeleteAllLinks(d, id) == Ran([d EXCEPT !.entry_employees = <<>>])

\* DELETE FROM entry_employees WHERE entry_id = ?   (NULL = NULL is not true)
StmtDeleteLinksOfEntry(d, id) ==
    Ran([d EXCEPT !.entry_employees =
            SelectSeq(@, LAMBDA l : ~(id # Null /\ l.entry_id = id))])

\* DELETE FROM entries WHERE id = ?
StmtDeleteEntry(d, id) ==
    LET gone == {e \in d.entries : e.id = id}
    IN IF Unreferenced(d, {e.id : e \in gone})
       THEN Ran([d EXCEPT !.entries = @ \ gone])
       ELSE Raised(d)

\* DELETE FROM entries WHERE propertyAddress = ?
StmtDeleteEntriesAt(d, address) ==
    LET gone == {e \in d.entries : e.propertyAddress = address}
    IN IF Unreferenced(d, {e.id : e \in gone})
       THEN Ran([d EXCEPT !.entries = @ \ gone])
       ELSE Raised(d)

\* INSERT INTO properties (fullName, address, services) VALUES (?, ?, ?)
\* (address TEXT UNIQUE)
StmtInsertProperty(d, body) ==
    IF \E p \in d.properties : p.address = body.address
    THEN Raised(d)
    ELSE Ran([d EXCEPT !.properties = @ \cup
                 {[id |-> d.seq.properties + 1, fullName |-> body.fullName,
                   address |-> body.address, services |-> StringifyMap(body.services)]},
              !.seq.properties = @ + 1])

\* the bug of an update that carries the new address into the entries recorded
\* at the old one
StmtUpdatePropertyAndEntries(d, id, body) ==
    IF /\ \E p \in d.properties : p.id = id
       /\ \E p \in d.properties : p.id # id /\ p.address = body.address
    THEN Raised(d)
    ELSE Ran([d EXCEPT
                !.properties =
                    {IF p.id = id
                     THEN [id |-> id, fullName |-> body.fullName, address |-> body.address,
                           services |-> StringifyMap(body.services)]
                     ELSE p : p \in @},
                !.entries =
                    {IF \E p \in d.properties : p.id = id /\ p.address = e.propertyAddress
                     THEN [e EXCEPT !.propertyAddress = body.address]
                     ELSE e : e \in @}])

\* the bug of an update on a column that is not UNIQUE
StmtUpdatePropertyUnchecked(d, id, body) ==
    Ran([d EXCEPT !.properties =
            {IF p.id = id
             THEN [id |-> id, fullName |-> body.fullName, address |-> body.address,
                   services |-> StringifyMap(body.services)]
             ELSE p : p \in @}])

\* UPDATE properties SET fullName = ?, address = ?, services = ? WHERE id = ?
StmtUpdateProperty(d, id, body) ==
    IF /\ \E p \in d.properties : p.id = id
       /\ \E p \in d.properties : p.id # id /\ p.address = body.address
    THEN Raised(d)
    ELSE Ran([d EXCEPT !.properties =
                 {IF p.id = id
                  THEN [id |-> id, fullName |-> body.fullName, address |-> body.address,
                        services |-> StringifyMap(body.services)]
                  ELSE p : p \in @}])

\* the bug of a delete that takes the timers running at the address with it
StmtDeletePropertyAndTimers(d, address) ==
    Ran([d EXCEPT !.properties = {p \in @ : p.address # address},
                  !.activeTimers = SelectSeq(@, LAMBDA t : t.propertyAddress # address)])

\* DELETE FROM properties WHERE address = ?
StmtDeleteProperty(d, address) ==
    Ran([d EXCEPT !.properties = {p \in @ : p.address # address}])

\* the bug of a plain INSERT: the UNIQUE name raises on a second insert
StmtInsertEmployeeOrRaise(d, name) ==
    IF \E e \in d.employees : e.name = name
    THEN Raised(d)
    ELSE Ran([d EXCEPT !.employees = @ \cup {[id |-> d.seq.employees + 1, name |-> name]},
                       !.seq.employees = @ + 1])

\* INSERT OR IGNORE INTO employees (name) VALUES (?)   (name TEXT UNIQUE)
StmtInsertEmployee(d, name) ==
    IF \E e \in d.employees : e.name = name
    THEN Ran(d)
    ELSE Ran([d EXCEPT !.employees = @ \cup {[id |-> d.seq.employees + 1, name |-> name]},
                       !.seq.employees = @ + 1])

\* the bug of a delete that takes the entries the employee worked on with it
StmtDeleteEmployeeAndEntries(d, name) ==
    Ran([d EXCEPT
           !.employees = {e \in @ : e.name # name},
           !.entries = {e \in @ :
                          \A i \in DOMAIN d.entry_employees :
                             d.entry_employees[i].entry_id = e.id
                             => d.entry_employees[i].employee_name # name}])

\* DELETE FROM employees WHERE name = ?
StmtDeleteEmployee(d, name) ==
    Ran([d EXCEPT !.employees = {e \in @ : e.name # name}])

\* DELETE FROM entry_employees WHERE employee_name = ?
StmtDeleteLinksOfEmployee(d, name) ==
    Ran([d EXCEPT !.entry_employees = SelectSeq(@, LAMBDA l : l.employee_name # name)])

TimerRow(id, body) ==
    [id |-> id, startTime |-> body.startTime, date |-> body.date, client |-> body.client,
     propertyAddress |-> body.propertyAddress, service |-> body.service,
     employees |-> StringifyList(body.employees)]

TimerIdsOf(timers) == {timers[i].id : i \in 1..Len(timers)}

\* the bug of a timers table without its PRIMARY KEY
StmtInsertTimerUnchecked(d, id, body) ==
    Ran([d EXCEPT !.activeTimers = Append(@, TimerRow(id, body))])

\* INSERT INTO activeTimers (id, startTime, ...) VALUES (...)   (id TEXT PRIMARY KEY)
StmtInsertTimer(d, id, body) ==
    IF id \in TimerIdsOf(d.activeTimers)
    THEN Raised(d)
    ELSE Ran([d EXCEPT !.activeTimers = Append(@, TimerRow(id, body))])

\* the bug of treating a delete that matches no row as an error
StmtDeleteTimerOrRaise(d, id) ==
    IF id \in TimerIdsOf(d.activeTimers)
    THEN Ran([d EXCEPT !.activeTimers = SelectSeq(@, LAMBDA t : t.id # id)])
    ELSE Raised(d)

\* DELETE FROM activeTimers WHERE id = ?
StmtDeleteTimer(d, id) ==
    Ran([d EXCEPT !.activeTimers = SelectSeq(@, LAMBDA t : t.id # id)])

\* the larger of two numbers (sqlite_sequence after an INSERT with an id given)
Max(a, b) == IF a >= b THEN a ELSE b

\* migrate.js: INSERT INTO properties (id, fullName, address, services)
StmtMigrateProperty(d, row) ==
    IF \E p \in d.properties : p.id = row.id \/ p.address = row.address
    THEN Raised(d)
    ELSE Ran([d EXCEPT !.properties = @ \cup {row},
                       !.seq.properties = Max(@, row.id)])

\* migrate.js: INSERT INTO employees (name) VALUES (?)   (name TEXT UNIQUE)
StmtMigrateEmployee(d, name) ==
    IF \E e \in d.employees : e.name = name
    THEN Raised(d)
    ELSE Ran([d EXCEPT !.employees = @ \cup {[id |-> d.seq.employees + 1, name |-> name]},
                       !.seq.employees = @ + 1])

\* migrate.js: INSERT INTO entries (id, date, ...)
StmtMigrateEntry(d, row) ==
    IF row.id \in EntryIds(d)
    THEN Raised(d)
    ELSE Ran([d EXCEPT !.entries = @ \cup {row}, !.seq.entries = Max(@, row.id)])

\* the bug of a join row under a generated id instead of the entry's own
StmtMigrateLinkRenumbered(d, entry_id, name) ==
    Ran([d EXCEPT !.entry_employees =
            Append(@, [entry_id |-> Len(d.entry_employees) + 1, employee_name |-> name])])

\* migrate.js: INSERT INTO entry_employees (entry_id, employee_name); the script
\* does not turn foreign_keys on
StmtMigrateLink(d, entry_id, name) ==
    Ran([d EXCEPT !.entry_employees =
            Append(@, [entry_id |-> entry_id, employee_name |-> name])])

(***************************************************************************)
(* Statements of a handler, in program order, and their execution.         *)
(***************************************************************************)
NoBody == [none |-> TRUE]
Stmt(kind, id, key, body) == [kind |-> kind, id |-> id, key |-> key, body |-> body]

\* one statement.run(...); "throw" is a line of the handler that raises a
\* TypeError (for ... of over a value that is not iterable)
Exec(d, s) ==
    CASE s.kind = "insertEntry" -> StmtInsertEntry(d, s.body)
      [] s.kind = "insertLink" -> StmtInsertLink(d, s.id, s.key)
      [] s.kind = "updateEntry" -> StmtUpdateEntry(d, s.id, s.body)
      [] s.kind = "deleteLinksOfEntry" -> StmtDeleteLinksOfEntry(d, s.id)
      [] s.kind = "deleteEntry" -> StmtDeleteEntry(d, s.id)
      [] s.kind = "deleteEntriesAt" -> StmtDeleteEntriesAt(d, s.key)
      [] s.kind = "insertProperty" -> StmtInsertProperty(d, s.body)
      [] s.kind = "updateProperty" -> StmtUpdateProperty(d, s.id, s.body)
      [] s.kind = "deleteProperty" -> StmtDeleteProperty(d, s.key)
      [] s.kind = "insertEmployee" -> StmtInsertEmployee(d, s.key)
      [] s.kind = "deleteEmployee" -> StmtDeleteEmployee(d, s.key)
      [] s.kind = "deleteLinksOfEmployee" -> StmtDeleteLinksOfEmployee(d, s.key)
      [] s.kind = "insertTimer" -> StmtInsertTimer(d, s.key, s.body)
      [] s.kind = "deleteTimer" -> StmtDeleteTimer(d, s.key)
      [] s.kind \in {"begin", "commit", "select"} -> Ran(d)
      [] s.kind = "migrateProperty" -> StmtMigrateProperty(d, s.body)
      [] s.kind = "migrateEmployee" -> StmtMigrateEmployee(d, s.key)
      [] s.kind = "migrateEntry" -> StmtMigrateEntry(d, s.body)
      [] s.kind = "migrateLink" -> StmtMigrateLink(d, s.id, s.key)
      [] OTHER -> Raised(d)

\* the statements from the i-th on, one after the other, until one raises;
\* fault names the statement the store fails with an I/O error (0: none).
\* done counts the statements that ran.
RECURSIVE RunFrom(_, _, _, _)
RunFrom(d, stmts, i, fault) ==
    IF i > Len(stmts) THEN [ok |-> TRUE, db |-> d, done |-> i - 1]
    ELSE IF fault = i THEN [ok |-> FALSE, db |-> d, done |-> i - 1]
    ELSE LET r == Exec(d, stmts[i])
         IN IF r.ok THEN RunFrom(r.db, stmts, i + 1, fault)
            ELSE [ok |-> FALSE, db |-> r.db, done |-> i - 1]

\* the bug of running the statements outside a transaction: what ran stays
TransactionWithoutRollback(d, stmts, fault) == RunFrom(d, stmts, 1, fault)

\* db.transaction(() => { ... })(): BEGIN, the statements, COMMIT; an exception
\* rolls the store back to what it was at BEGIN and is thrown on
Transaction(d, stmts, fault) ==
    LET r == RunFrom(d, stmts, 1, fault)
    IN IF r.ok THEN r ELSE [r EXCEPT !.db = d]

\* db.prepare(sql).run(...) outside a transaction: one statement, autocommit
Autocommit(d, stmt, fault) == RunFrom(d, <<stmt>>, 1, fault)

\* for (const employee of employees) insertEmployeeLink.run(entryId, employee)
LinkInserts(entryId, employees) ==
    IF employees.iterable
    THEN [i \in 1..Len(employees.items) |->
             Stmt("insertLink", entryId, employees.items[i], NoBody)]
    ELSE <<Stmt("throw", 0, "", NoBody)>>

(***************************************************************************)
(* GET /api/data: the aggregate the handler builds from the five tables.   *)
(***************************************************************************)
\* the bug of ordering by id alone
RECURSIVE EntriesByIdDescending(_)
EntriesByIdDescending(rows) ==
    IF rows = {} THEN <<>>
    ELSE LET first == CHOOSE e \in rows : \A o \in rows : e.id >= o.id
         IN <<first>> \o EntriesByIdDescending(rows \ {first})

\* ORDER BY date DESC, id DESC
RECURSIVE EntriesNewestFirst(_)
EntriesNewestFirst(rows) ==
    IF rows = {} THEN <<>>
    ELSE LET first == CHOOSE e \in rows : \A o \in rows :
                          \/ e.date > o.date
                          \/ e.date = o.date /\ e.id >= o.id
         IN <<first>> \o EntriesNewestFirst(rows \ {first})

\* rows in rowid order (SELECT * with no ORDER BY on an INTEGER PRIMARY KEY table)
RECURSIVE ById(_)
ById(rows) ==
    IF rows = {} THEN <<>>
    ELSE LET first == CHOOSE r \in rows : \A o \in rows : r.id <= o.id
         IN <<first>> \o ById(rows \ {first})

\* the collation of the names of the model
NameOrder == <<"A", "B">>
NameRank(name) == CHOOSE i \in 1..Len(NameOrder) : NameOrder[i] = name

\* ORDER BY name
RECURSIVE ByName(_)
ByName(rows) ==
    IF rows = {} THEN <<>>
    ELSE LET first == CHOOSE r \in rows : \A o \in rows : NameRank(r.name) <= NameRank(o.name)
         IN <<first>> \o ByName(rows \ {first})

\* entry_employees.filter(link => link.entry_id === entry.id).map(link => link.employee_name)
EmployeesOf(links, id) ==
    LET mine == SelectSeq(links, LAMBDA l : l.entry_id = id)
    IN [i \in 1..Len(mine) |-> mine[i].employee_name]

FetchAll(d) ==
    LET entries == EntriesNewestFirst(d.entries)
        properties == ById(d.properties)
    IN [entries |-> [i \in 1..Len(entries) |->
                        [row |-> entries[i],
                         employees |-> EmployeesOf(d.entry_employees, entries[i].id)]],
        properties |-> [i \in 1..Len(properties) |->
                           [properties[i] EXCEPT !.services = ParseMap(@)]],
        employees |-> ByName(d.employees),
        activeTimers |-> [i \in 1..Len(d.activeTimers) |->
                             [d.activeTimers[i] EXCEPT !.employees = ParseList(@)]]]

(***************************************************************************)
(* The transactional server. A handler is a function of the store and the  *)
(* request: it gives the store it leaves, the status it answers and, for   *)
(* a create, the generated id (rid). ran is the number of statements that  *)
(* ran before the handler answered.                                        *)
(***************************************************************************)
Outcome(r, success, rid) ==
    [db |-> r.db, status |-> IF r.ok THEN success ELSE 500,
     rid |-> IF r.ok THEN rid ELSE 0, ran |-> r.done]

\* app.get('/api/data'): five SELECTs, no write; the body is FetchAll(d)
GetDataHandler(d, fault) ==
    IF fault = 0
    THEN [db |-> d, status |-> 200, rid |-> 0, ran |-> 5]
    ELSE [db |-> d, status |-> 500, rid |-> 0, ran |-> fault - 1]

\* app.post('/api/entries')
PostEntryHandler(d, body, fault) ==
    Outcome(Transaction(d, <<Stmt("insertEntry", 0, "", body)>>
                           \o LinkInserts(NextEntryId(d), body.employees), fault),
            201, NextEntryId(d))

\* app.put('/api/entries/:id')
PutEntryHandler(d, path, body, fault) ==
    Outcome(Transaction(d, <<Stmt("updateEntry", ParseInt(path), "", body),
                             Stmt("deleteLinksOfEntry", ParseInt(path), "", NoBody)>>
                           \o LinkInserts(ParseInt(path), body.employees), fault),
            200, 0)

\* app.delete('/api/entries/:id'): the path text is bound as it is and compared
\* with the INTEGER columns as the number it denotes
DeleteEntryHandler(d, path, fault) ==
    Outcome(Transaction(d, <<Stmt("deleteLinksOfEntry", ParseInt(path), "", NoBody),
                             Stmt("deleteEntry", ParseInt(path), "", NoBody)>>, fault),
            204, 0)

\* app.post('/api/properties')
PostPropertyHandler(d, body, fault) ==
    Outcome(Autocommit(d, Stmt("insertProperty", 0, "", body), fault),
            201, d.seq.properties + 1)

\* app.put('/api/properties/:id')
PutPropertyHandler(d, path, body, fault) ==
    Outcome(Autocommit(d, Stmt("updateProperty", ParseInt(path), "", body), fault), 200, 0)

\* app.delete('/api/properties/:address')
DeletePropertyHandler(d, address, fault) ==
    Outcome(Transaction(d, <<Stmt("deleteEntriesAt", 0, address, NoBody),
                             Stmt("deleteProperty", 0, address, NoBody)>>, fault),
            204, 0)

\* app.post('/api/employees')
PostEmployeeHandler(d, name, fault) ==
    Outcome(Autocommit(d, Stmt("insertEmployee", 0, name, NoBody), fault), 201, 0)

\* app.put('/api/employees/:name'): UPDATE employees SET phone = ?, email = ? names
\* columns the schema does not have; db.prepare raises and the handler answers 500
PutEmployeeHandler(d, name) == [db |-> d, status |-> 500, rid |-> 0, ran |-> 0]

\* app.delete('/api/employees/:name')
DeleteEmployeeHandler(d, name, fault) ==
    Outcome(Transaction(d, <<Stmt("deleteEmployee", 0, name, NoBody),
                             Stmt("deleteLinksOfEmployee", 0, name, NoBody)>>, fault),
            204, 0)

\* app.post('/api/timers'), with id the token uuidv4() returned
PostTimerHandler(d, id, body, fault) ==
    Outcome(Autocommit(d, Stmt("insertTimer", 0, id, body), fault), 201, 0)

\* app.delete('/api/timers/:id')
DeleteTimerHandler(d, id, fault) ==
    Outcome(Autocommit(d, Stmt("deleteTimer", 0, id, NoBody), fault), 204, 0)

(***************************************************************************)
(* The requests the server handles, one request a step. last is the        *)
(* request just answered: its operation and status, whether it left the    *)
(* store changed, and whether it failed after a statement had run.         *)
(***************************************************************************)
NoAnswer == [op |-> "none", status |-> 0, changed |-> FALSE, partial |-> FALSE]

Handled(op, o) ==
    /\ RowCount(o.db) <= MaxRows
    /\ db' = o.db
    /\ last' = [op |-> op, status |-> o.status, changed |-> o.db # db,
                partial |-> o.status = 500 /\ o.ran > 0]
    /\ UNCHANGED <<sched, reqs>>

GetData ==
    \E fault \in 0..1 :
      \E o \in {GetDataHandler(db, fault)} : Handled("getData", o)

PostEntry ==
    \E body \in EntryBodies :
      \E fault \in 0..(1 + Len(body.employees.items)) :
        /\ NextEntryId(db) <= MaxEntryId
        /\ \E o \in {PostEntryHandler(db, body, fault)} : Handled("postEntry", o)

PutEntry ==
    \E path \in PathIds, body \in EntryBodies :
      \E fault \in 0..(2 + Len(body.employees.items)) :
        \E o \in {PutEntryHandler(db, path, body, fault)} : Handled("putEntry", o)

DeleteEntry ==
    \E path \in PathIds, fault \in 0..2 :
      \E o \in {DeleteEntryHandler(db, path, fault)} : Handled("deleteEntry", o)

PostProperty ==
    \E body \in PropertyBodies, fault \in 0..1 :
      \E o \in {PostPropertyHandler(db, body, fault)} :
        /\ o.db.seq.properties <= MaxPropertyId
        /\ Handled("postProperty", o)

PutProperty ==
    \E path \in PathIds, body \in PropertyBodies, fault \in 0..1 :
      \E o \in {PutPropertyHandler(db, path, body, fault)} : Handled("putProperty", o)

DeleteProperty ==
    \E address \in Addresses, fault \in 0..2 :
      \E o \in {DeletePropertyHandler(db, address, fault)} : Handled("deleteProperty", o)

PostEmployee ==
    \E name \in Names, fault \in 0..1 :
      \E o \in {PostEmployeeHandler(db, name, fault)} :
        /\ o.db.seq.employees <= MaxEmployeeId
        /\ Handled("postEmployee", o)

PutEmployee ==
    \E name \in Names :
      \E o \in {PutEmployeeHandler(db, name)} : Handled("putEmployee", o)

DeleteEmployee ==
    \E name \in Names, fault \in 0..2 :
      \E o \in {DeleteEmployeeHandler(db, name, fault)} : Handled("deleteEmployee", o)

\* id = uuidv4() is some token; nothing in the handler looks whether it is in
\* use, the PRIMARY KEY of activeTimers does
PostTimer ==
    \E id \in TimerIds, body \in TimerBodies, fault \in 0..1 :
      \E o \in {PostTimerHandler(db, id, body, fault)} : Handled("postTimer", o)

DeleteTimer ==
    \E id \in TimerIds, fault \in 0..1 :
      \E o \in {DeleteTimerHandler(db, id, fault)} : Handled("deleteTimer", o)

Init ==
    /\ db = EmptyStore
    /\ last = NoAnswer
    /\ sched = [locked |-> FALSE, queue |-> <<>>, running |-> {}, down |-> FALSE]
    /\ reqs = <<>>

Next ==
    \/ GetData
    \/ PostEntry
    \/ PutEntry
    \/ DeleteEntry
    \/ PostProperty
    \/ PutProperty
    \/ DeleteProperty
    \/ PostEmployee
    \/ PutEmployee
    \/ DeleteEmployee
    \/ PostTimer
    \/ DeleteTimer

Spec == Init /\ [][Next]_vars

(***************************************************************************)
(* The transactional server again, with the requests that tell records     *)
(* apart: entries on two dates, two properties, two employees, and a path  *)
(* id that is no number. The store does not fail here, and the answers    *)
(* are not recorded: db is all that changes.                               *)
(***************************************************************************)
\* rows in the store, and ids per table, of this specification
MaxWideRows == 4
MaxWideIds == 2

WideDates == {1, 2}
WideLists == {<<>>, <<"A">>, <<"B", "A">>}
WideEntryBodies ==
    [date : WideDates, client : Clients, propertyAddress : Addresses,
     service : ServiceNames, timeIn : Times, timeOut : Times, totalHours : Hours,
     employees : {[iterable |-> TRUE, items |-> l] : l \in WideLists}]
WidePaths == PathIds \cup {"abc"}

HandledWide(op, o) ==
    /\ RowCount(o.db) <= MaxWideRows
    /\ \A t \in DOMAIN o.db.seq : o.db.seq[t] <= MaxWideIds
    /\ db' = o.db
    /\ UNCHANGED <<last, sched, reqs>>

WideGetData ==
    \E o \in {GetDataHandler(db, 0)} : HandledWide("getData", o)

WidePostEntry ==
    \E body \in WideEntryBodies :
      \E o \in {PostEntryHandler(db, body, 0)} : HandledWide("postEntry", o)

WidePutEntry ==
    \E path \in WidePaths, body \in WideEntryBodies :
      \E o \in {PutEntryHandler(db, path, body, 0)} : HandledWide("putEntry", o)

WideDeleteEntry ==
    \E path \in WidePaths :
      \E o \in {DeleteEntryHandler(db, path, 0)} : HandledWide("deleteEntry", o)

WidePostProperty ==
    \E body \in PropertyBodies :
      \E o \in {PostPropertyHandler(db, body, 0)} : HandledWide("postProperty", o)

WidePutProperty ==
    \E path \in WidePaths, body \in PropertyBodies :
      \E o \in {PutPropertyHandler(db, path, body, 0)} : HandledWide("putProperty", o)

WideDeleteProperty ==
    \E address \in Addresses :
      \E o \in {DeletePropertyHandler(db, address, 0)} : HandledWide("deleteProperty", o)

WidePostEmployee ==
    \E name \in Names :
      \E o \in {PostEmployeeHandler(db, name, 0)} : HandledWide("postEmployee", o)

WideDeleteEmployee ==
    \E name \in Names :
      \E o \in {DeleteEmployeeHandler(db, name, 0)} : HandledWide("deleteEmployee", o)

NextWide ==
    \/ WideGetData
    \/ WidePostEntry
    \/ WidePutEntry
    \/ WideDeleteEntry
    \/ WidePostProperty
    \/ WidePutProperty
    \/ WideDeleteProperty
    \/ WidePostEmployee
    \/ WideDeleteEmployee

SpecWide == Init /\ [][NextWide]_vars

(***************************************************************************)
(* The callback server (node-sqlite3). Every statement of every request    *)
(* goes to the one connection db. A task is one Statement object: its      *)
(* prepare, its runs (steps, in order) and its finalize; it counts as      *)
(* pending from its dispatch to its end, and its callback (named by tag)   *)
(* runs at its end, before the connection looks at its queue again.        *)
(* sched is the connection: the tasks dispatched (running), the calls      *)
(* waiting (queue), locked (the last call dispatched was exclusive) and    *)
(* down (an exception no one caught has ended the process).                *)
(* reqs are the requests received, in order: status 0 until answered, rid  *)
(* the id an insert generated, seen the tables a GET has read so far.      *)
(***************************************************************************)
\* requests received in a run of the callback server
MaxRequests == 3

Idle == [locked |-> FALSE, queue |-> <<>>, running |-> {}, down |-> FALSE]

Task(req, tag, steps) == [req |-> req, tag |-> tag, steps |-> steps, excl |-> FALSE]

Request(op, key, body) ==
    [op |-> op, key |-> key, body |-> body, status |-> 0, rid |-> 0,
     quiet |-> \A i \in 1..Len(reqs) : reqs[i].status # 0, seen |-> <<>>]

\* the calls of an update issued as if db.serialize were not around them
ScheduleUnserialized(s, t, serialize) ==
    IF s.locked /\ s.running # {}
    THEN [s EXCEPT !.queue = Append(@, t)]
    ELSE [s EXCEPT !.locked = FALSE, !.running = @ \cup {t}]

\* a call outside db.serialize joins the running tasks unless an exclusive call
\* is running; one inside db.serialize waits for every running task to end
Schedule(s, t, serialize) ==
    IF (s.locked \/ serialize) /\ s.running # {}
    THEN [s EXCEPT !.queue = Append(@, [t EXCEPT !.excl = serialize])]
    ELSE [s EXCEPT !.locked = FALSE, !.running = @ \cup {t}]

RECURSIVE ScheduleAll(_, _, _)
ScheduleAll(s, tasks, serialize) ==
    IF tasks = <<>> THEN s
    ELSE ScheduleAll(Schedule(s, Head(tasks), serialize), Tail(tasks), serialize)

\* at the end of a task: dispatch the calls waiting, in order; an exclusive one
\* only when nothing runs, and nothing more while it runs
RECURSIVE Process(_)
Process(s) ==
    IF s.queue = <<>> \/ (s.locked /\ s.running # {}) THEN s
    ELSE IF Head(s.queue).excl /\ s.running # {} THEN s
    ELSE Process([s EXCEPT !.queue = Tail(@), !.locked = Head(s.queue).excl,
                           !.running = @ \cup {Head(s.queue)}])

TableNames == {"entries", "properties", "employees", "entry_employees", "activeTimers"}

\* runPromiseAll(queries): one db.all per query, all issued in the same turn
ReadTasks(req) ==
    <<Task(req, "read", <<Stmt("select", 0, "entries", NoBody)>>),
      Task(req, "read", <<Stmt("select", 0, "properties", NoBody)>>),
      Task(req, "read", <<Stmt("select", 0, "employees", NoBody)>>),
      Task(req, "read", <<Stmt("select", 0, "entry_employees", NoBody)>>),
      Task(req, "read", <<Stmt("select", 0, "activeTimers", NoBody)>>)>>

\* the statement of the join rows: db.prepare, one run per employee, finalize;
\* when employees is not iterable the loop throws before any run
LinkTask(req, tag, entryId, employees) ==
    Task(req, tag, IF employees.iterable THEN LinkInserts(entryId, employees) ELSE <<>>)

\* the statements of app.put('/api/entries/:id'), in the order db.serialize gets
\* them; COMMIT is never issued when the loop over employees throws
PutTasks(req, path, body) ==
    <<Task(req, "begin", <<Stmt("begin", 0, "", NoBody)>>),
      Task(req, "update", <<Stmt("updateEntry", ParseInt(path), "", body)>>),
      Task(req, "unlink", <<Stmt("deleteLinksOfEntry", ParseInt(path), "", NoBody)>>),
      LinkTask(req, "relink", ParseInt(path), body.employees)>>
    \o (IF body.employees.iterable
        THEN <<Task(req, "commit", <<Stmt("commit", 0, "", NoBody)>>)>>
        ELSE <<>>)

\* what the requests of the callback server carry
CbLists == {<<"A">>, <<"B", "A">>}
CbEmployeeInputs ==
    {[iterable |-> TRUE, items |-> l] : l \in CbLists}
    \cup {[iterable |-> FALSE, items |-> <<>>]}
CbEntryBodies ==
    [date : {1}, client : Clients, propertyAddress : {"a1"}, service : ServiceNames,
     timeIn : Times, timeOut : Times, totalHours : Hours, employees : CbEmployeeInputs]

Received(request, s) ==
    /\ ~sched.down
    /\ Len(reqs) < MaxRequests
    /\ reqs' = Append(reqs, request)
    /\ sched' = s
    /\ UNCHANGED <<db, last>>

\* app.get('/api/data')
CbGetData ==
    \E req \in {Len(reqs) + 1} :
        Received(Request("getData", "", NoBody),
                 ScheduleAll(sched, ReadTasks(req), FALSE))

\* app.post('/api/entries'): db.run(INSERT INTO entries ..., callback)
CbPostEntry ==
    \E body \in CbEntryBodies :
        Received(Request("postEntry", "", body),
                 Schedule(sched, Task(Len(reqs) + 1, "insertEntry",
                                      <<Stmt("insertEntry", 0, "", body)>>), FALSE))

\* app.put('/api/entries/:id'): db.serialize(() => { BEGIN ... COMMIT }); an
\* exception of the loop over employees leaves the handler, and the framework
\* answers 500
CbPutEntry ==
    \E path \in PathIds, body \in CbEntryBodies :
        /\ ParseInt(path) \in EntryIds(db)
        /\ Received([Request("putEntry", path, body) EXCEPT
                        !.status = IF body.employees.iterable THEN 0 ELSE 500],
                    ScheduleAll(sched, PutTasks(Len(reqs) + 1, path, body), TRUE))

\* app.delete('/api/employees/:name'): db.run(DELETE FROM employees ..., callback)
CbDeleteEmployee ==
    \E name \in Names :
        Received(Request("deleteEmployee", name, NoBody),
                 Schedule(sched, Task(Len(reqs) + 1, "deleteEmployee",
                                      <<Stmt("deleteEmployee", 0, name, NoBody)>>), FALSE))

\* the table a SELECT returns
Snapshot(d, table) ==
    CASE table = "entries" -> EntriesNewestFirst(d.entries)
      [] table = "properties" -> ById(d.properties)
      [] table = "employees" -> ByName(d.employees)
      [] table = "entry_employees" -> d.entry_employees
      [] OTHER -> d.activeTimers

\* the request of task t after its next statement has run
AfterRun(t, step) ==
    CASE step.kind = "select" ->
           [reqs[t.req] EXCEPT !.seen = (step.key :> Snapshot(db, step.key)) @@ @]
      [] step.kind = "insertEntry" -> [reqs[t.req] EXCEPT !.rid = NextEntryId(db)]
      [] OTHER -> reqs[t.req]

\* the callback of a task that has ended: the calls it issues (outside
\* db.serialize), the status it answers (0: none yet), whether it throws
Callback(t, r) ==
    CASE t.tag = "insertEntry" ->
           \* const stmt = db.prepare(...); for (...) stmt.run(...); stmt.finalize(cb)
           [calls |-> <<LinkTask(t.req, "links", r.rid, r.body.employees)>>,
            status |-> 0, throws |-> ~r.body.employees.iterable]
      [] t.tag = "links" -> [calls |-> <<>>, status |-> 201, throws |-> FALSE]
      [] t.tag = "commit" -> [calls |-> <<>>, status |-> 200, throws |-> FALSE]
      [] t.tag = "deleteEmployee" ->
           \* db.run(DELETE FROM entry_employees ...); res.status(204).send()
           [calls |-> <<Task(t.req, "unlinkEmployee",
                             <<Stmt("deleteLinksOfEmployee", 0, r.key, NoBody)>>)>>,
            status |-> 204, throws |-> FALSE]
      [] t.tag = "read" ->
           [calls |-> <<>>, status |-> IF DOMAIN r.seen = TableNames THEN 200 ELSE 0,
            throws |-> FALSE]
      [] OTHER -> [calls |-> <<>>, status |-> r.status, throws |-> FALSE]

\* the tasks whose statements run without a callback: an error of one of them
\* is emitted as an 'error' event that nothing listens to, which ends the process
Unwatched == {"links", "relink", "begin", "update", "unlink", "unlinkEmployee", "script"}

\* a running task runs its next statement; after its last one it ends: its
\* callback runs, then it stops counting as pending and the queue is processed
CbStep ==
    \E t \in sched.running :
        /\ ~sched.down
        /\ LET step == IF t.steps = <<>> THEN Stmt("none", 0, "", NoBody) ELSE Head(t.steps)
               rest == IF t.steps = <<>> THEN <<>> ELSE Tail(t.steps)
               r == IF t.steps = <<>> THEN reqs[t.req] ELSE AfterRun(t, step)
               c == Callback(t, r)
               ran == IF t.steps = <<>> THEN Ran(db) ELSE Exec(db, step)
           IN IF ~ran.ok /\ t.tag \in Unwatched
              THEN /\ sched' = [sched EXCEPT !.down = TRUE]
                   /\ UNCHANGED <<db, reqs>>
              ELSE /\ db' = ran.db
                   /\ IF rest # <<>>
                      THEN /\ sched' = [sched EXCEPT
                                          !.running = (@ \ {t}) \cup {[t EXCEPT !.steps = rest]}]
                           /\ reqs' = [reqs EXCEPT ![t.req] = r]
                      ELSE /\ sched' =
                                LET called == ScheduleAll(sched, c.calls, FALSE)
                                    ended == [called EXCEPT !.running = @ \ {t}]
                                IN IF c.throws THEN [ended EXCEPT !.down = TRUE]
                                   ELSE Process(ended)
                           /\ reqs' = [reqs EXCEPT ![t.req] =
                                          [r EXCEPT !.status = IF c.status = 0 THEN @ ELSE c.status]]
        /\ UNCHANGED last

InitCb ==
    /\ db = EmptyStore
    /\ last = NoAnswer
    /\ sched = Idle
    /\ reqs = <<>>

NextCb ==
    \/ CbPostEntry
    \/ CbGetData
    \/ CbDeleteEmployee
    \/ CbStep

\* the callback server creating entries, reading and deleting employees
SpecCb == InitCb /\ [][NextCb]_vars

\* the store and the requests after one create of an entry has been answered
InitCbPut ==
    \E body \in CbEntryBodies :
        /\ body.employees.iterable
        /\ db = RunFrom(EmptyStore,
                        <<Stmt("insertEntry", 0, "", body)>> \o LinkInserts(1, body.employees),
                        1, 0).db
        /\ reqs = <<[op |-> "postEntry", key |-> "", body |-> body, status |-> 201,
                     rid |-> 1, quiet |-> TRUE, seen |-> <<>>]>>
        /\ last = NoAnswer
        /\ sched = Idle

NextCbPut ==
    \/ CbPutEntry
    \/ CbGetData
    \/ CbStep

\* the callback server updating an entry that exists while reading
SpecCbPut == InitCbPut /\ [][NextCbPut]_vars

(***************************************************************************)
(* migrate.js: the legacy document db.json is read, and inside db.serialize *)
(* four statements are prepared and run once per legacy record: the         *)
(* properties, the employees, the entries, the join rows. Each statement    *)
(* is a task of the connection; reqs holds the one run of the script, its   *)
(* body the document.                                                       *)
(***************************************************************************)
\* records per list of the legacy document, and the ids they carry
MaxLegacy == 2

\* a field the legacy record does not have (undefined, bound as NULL)
Absent == ""

LegacyProperties ==
    {[id |-> 1, fullName |-> "Acme", address |-> "a1", services |-> [defined |-> TRUE, pairs |-> <<<<"mowing", "true">>>>]],
     [id |-> 2, fullName |-> "Acme", address |-> "a2", services |-> [defined |-> FALSE, pairs |-> <<>>]],
     [id |-> 2, fullName |-> "Acme", address |-> "a1", services |-> [defined |-> FALSE, pairs |-> <<>>]]}

LegacyEmployeeLists == {<<>>, <<"A">>, <<"A", "B">>, <<"A", "A">>}

\* a legacy entry has its times under TimeIn / TimeOut or under timeIn / timeOut
LegacyEntries ==
    {[id |-> id, date |-> 1, client |-> "c1", propertyAddress |-> "a1", service |-> "mowing",
      TimeIn |-> t[1], timeIn |-> t[2], TimeOut |-> t[1], timeOut |-> t[2],
      totalHours |-> "1.5", employees |-> e] :
        id \in 1..MaxLegacy,
        t \in {<<"08:00", Absent>>, <<Absent, "09:00">>},
        e \in {[listed |-> FALSE, items |-> <<>>], [listed |-> TRUE, items |-> <<>>],
               [listed |-> TRUE, items |-> <<"B", "A">>]}}

LegacyDocuments ==
    [properties : SeqsUpTo(LegacyProperties, MaxLegacy), employees : LegacyEmployeeLists,
     entries : SeqsUpTo(LegacyEntries, MaxLegacy)]

\* the properties row of a legacy property: JSON.stringify(prop.services || {})
MigratedProperty(prop) ==
    [id |-> prop.id, fullName |-> prop.fullName, address |-> prop.address,
     services |-> StringifyMap([defined |-> TRUE, pairs |-> prop.services.pairs])]

\* entry.TimeIn || entry.timeIn
Either(upper, lower) == IF upper # Absent THEN upper ELSE lower

\* the entries row of a legacy entry
MigratedEntry(entry) ==
    [id |-> entry.id, date |-> entry.date, client |-> entry.client,
     propertyAddress |-> entry.propertyAddress, service |-> entry.service,
     timeIn |-> Either(entry.TimeIn, entry.timeIn),
     timeOut |-> Either(entry.TimeOut, entry.timeOut), totalHours |-> entry.totalHours]

\* the runs of linkStmt, in the order of the loops over the entries and over
\* the employees of each (if (entry.employees && entry.employees.length > 0))
RECURSIVE MigrateLinks(_)
MigrateLinks(entries) ==
    IF entries = <<>> THEN <<>>
    ELSE [i \in 1..Len(Head(entries).employees.items) |->
             Stmt("migrateLink", Head(entries).id, Head(entries).employees.items[i], NoBody)]
         \o MigrateLinks(Tail(entries))

\* the four statements of the script, each with its runs
MigrateTasks(req, doc) ==
    <<Task(req, "script", [i \in 1..Len(doc.properties) |->
              Stmt("migrateProperty", 0, "propStmt", MigratedProperty(doc.properties[i]))]),
      Task(req, "script", [i \in 1..Len(doc.employees) |->
              Stmt("migrateEmployee", 0, doc.employees[i], NoBody)]),
      Task(req, "script", [i \in 1..Len(doc.entries) |->
              Stmt("migrateEntry", 0, "entryStmt", MigratedEntry(doc.entries[i]))]),
      Task(req, "script", MigrateLinks(doc.entries))>>

\* the script has run to the end of its text: every statement is scheduled
InitMigrate ==
    \E doc \in LegacyDocuments :
        /\ db = EmptyStore
        /\ last = NoAnswer
        /\ reqs = <<[op |-> "migrate", key |-> "", body |-> doc, status |-> 0,
                     rid |-> 0, quiet |-> TRUE, seen |-> <<>>]>>
        /\ sched = ScheduleAll(Idle, MigrateTasks(1, doc), TRUE)

NextMigrate == CbStep

\* the migration script on a legacy document
SpecMigrate == InitMigrate /\ [][NextMigrate]_vars

(***************************************************************************)
(* The backup of the transactional server: setInterval calls createBackup  *)
(* on every tick; createBackup awaits fs.mkdir, then fs.copyFile, inside a *)
(* try whose catch logs the error. reqs holds the calls of createBackup,   *)
(* one per tick: where each is, and how often it tried each step. A call   *)
(* that awaits does not hold up the timer: calls may overlap.              *)
(***************************************************************************)
\* ticks of the timer in a run
MaxTicks == 4

BackupStarted == [op |-> "backup", stage |-> "mkdir", mkdirs |-> 0, copies |-> 0]

\* the bug of a catch that starts the backup over
RetryAfterFailure(run) == [run EXCEPT !.stage = "mkdir"]

\* catch (error) { console.error(...) }: the call returns
AfterFailure(run) == [run EXCEPT !.stage = "failed"]

\* setInterval(createBackup, 24 * 60 * 60 * 1000): a tick
BackupTick ==
    /\ ~sched.down
    /\ Len(reqs) < MaxTicks
    /\ reqs' = Append(reqs, BackupStarted)
    /\ UNCHANGED <<db, last, sched>>

\* await fs.mkdir(backupDir, { recursive: true })
BackupMkdir ==
    \E i \in DOMAIN reqs, ok \in BOOLEAN :
        /\ ~sched.down
        /\ reqs[i].stage = "mkdir"
        /\ reqs' = [reqs EXCEPT ![i] =
                       IF ok THEN [@ EXCEPT !.stage = "copy", !.mkdirs = @ + 1]
                       ELSE AfterFailure([@ EXCEPT !.mkdirs = @ + 1])]
        /\ UNCHANGED <<db, last, sched>>

\* await fs.copyFile(dbPath, backupFilePath)
BackupCopy ==
    \E i \in DOMAIN reqs, ok \in BOOLEAN :
        /\ ~sched.down
        /\ reqs[i].stage = "copy"
        /\ reqs' = [reqs EXCEPT ![i] =
                       IF ok THEN [@ EXCEPT !.stage = "done", !.copies = @ + 1]
                       ELSE AfterFailure([@ EXCEPT !.copies = @ + 1])]
        /\ UNCHANGED <<db, last, sched>>

NextBackup ==
    \/ BackupTick
    \/ BackupMkdir
    \/ BackupCopy

\* the timer and the backups of the transactional server
SpecBackup == Init /\ [][NextBackup]_vars

(***************************************************************************)
(* Requests the properties range over: every input of the handlers,        *)
(* with one more employee name than the requests of the steps use.         *)
(***************************************************************************)
AnyNames == Names \cup {"C"}
AnyLists == SeqsUpTo(AnyNames, MaxListLen)
AnyEntryBodies ==
    [date : Dates, client : Clients, propertyAddress : Addresses,
     service : ServiceNames, timeIn : Times, timeOut : Times, totalHours : Hours,
     employees : {[iterable |-> TRUE, items |-> l] : l \in AnyLists}
                 \cup {[iterable |-> FALSE, items |-> <<>>]}]

\* the five tables of a store
Tables(d) ==
    <<d.properties, d.employees, d.entries, d.entry_employees, d.activeTimers>>

\* the join rows of the entries other than id, in table order
LinksOfOthers(d, id) == SelectSeq(d.entry_employees, LAMBDA l : l.entry_id # id)

MultiStatementOps ==
    {"postEntry", "putEntry", "deleteEntry", "deleteProperty", "deleteEmployee"}

(***************************************************************************)
(* C1. Transactional server: whenever a request of more than one statement *)
(* (create, update, delete entry; delete property; delete employee)        *)
(* answers 500, the five tables are as they were before the request.       *)
(***************************************************************************)
C1_AllOrNothing ==
    [][(last'.op \in MultiStatementOps /\ last'.status = 500)
         => Tables(db') = Tables(db)]_vars

\* a create or update of an entry has answered 500 after statements of it had
\* run, in a store that holds rows
C1_Witness ==
    /\ last.op \in {"postEntry", "putEntry"}
    /\ last.status = 500
    /\ last.partial
    /\ db.entries # {}

(***************************************************************************)
(* C2. Every DELETE /api/properties/:address that the store does not fail  *)
(* leaves no entry with that propertyAddress and no property with that     *)
(* address in what fetch-all returns, also when entries at the address     *)
(* have join rows.                                                         *)
(***************************************************************************)
C2_DeletePropertyCascades ==
    \A address \in Addresses :
        LET all == FetchAll(DeletePropertyHandler(db, address, 0).db)
        IN /\ \A i \in 1..Len(all.entries) :
                  all.entries[i].row.propertyAddress # address
           /\ \A i \in 1..Len(all.properties) : all.properties[i].address # address

(***************************************************************************)
(* C3. After a successful PUT /api/entries/:id on an existing entry with   *)
(* employee list L, the join rows of that id are one row per name of L, in *)
(* the order of L, and none for a name linked before that is not in L; the *)
(* join rows of every other entry are unchanged.                           *)
(***************************************************************************)
C3_UpdateReplacesLinks ==
    \A path \in PathIds, body \in AnyEntryBodies :
        LET o == PutEntryHandler(db, path, body, 0)
            id == ParseInt(path)
        IN (o.status = 200 /\ id \in EntryIds(db))
           => /\ body.employees.iterable
              /\ EmployeesOf(o.db.entry_employees, id) = body.employees.items
              /\ LinksOfOthers(o.db, id) = LinksOfOthers(db, id)

\* an entry linked to A and B, where the update to the list {C} succeeds
\* and leaves exactly one join row, for C
C3_Witness ==
    \E path \in PathIds, body \in AnyEntryBodies :
        /\ EmployeesOf(db.entry_employees, ParseInt(path)) = <<"A", "B">>
        /\ body.employees.items = <<"C">>
        /\ PutEntryHandler(db, path, body, 0).status = 200
        /\ PutEntryHandler(db, path, body, 0).db.entry_employees
              = <<[entry_id |-> ParseInt(path), employee_name |-> "C"]>>

(***************************************************************************)
(* C4. After a successful POST /api/entries with employee list L, what     *)
(* fetch-all returns holds exactly one entry with the generated id, its    *)
(* employees set-equal to L, and the generated id is the id of no entry    *)
(* that was in the store.                                                  *)
(***************************************************************************)
C4_CreateReadsBack ==
    \A body \in AnyEntryBodies :
        LET o == PostEntryHandler(db, body, 0)
            all == FetchAll(o.db)
            got == {i \in 1..Len(all.entries) : all.entries[i].row.id = o.rid}
        IN o.status = 201
           => /\ o.rid \notin EntryIds(db)
              /\ Cardinality(got) = 1
              /\ Len(all.entries) = Cardinality(db.entries) + 1
              /\ \A i \in got :
                    Range(all.entries[i].employees) = Range(body.employees.items)

\* a create has answered 201 in a store that held an entry already, and the
\* store holds a linked entry
C4_Witness ==
    /\ last.op = "postEntry"
    /\ last.status = 201
    /\ Cardinality(db.entries) = 2
    /\ db.entry_employees # <<>>

(***************************************************************************)
(* C8. POST /api/employees with a name that exists answers 201, raises no  *)
(* error and leaves the store as it was (the store not failing); no two    *)
(* employees rows ever share a name.                                       *)
(***************************************************************************)
C8_CreateEmployeeIdempotent ==
    /\ \A e1, e2 \in db.employees : e1.name = e2.name => e1 = e2
    /\ \A name \in AnyNames :
          (\E e \in db.employees : e.name = name)
          => /\ PostEmployeeHandler(db, name, 0).status = 201
             /\ PostEmployeeHandler(db, name, 0).db = db

\* a create of an employee has answered 201 and changed nothing: the name existed
C8_Witness ==
    /\ last.op = "postEmployee"
    /\ last.status = 201
    /\ ~last.changed
    /\ db.employees # {}

(***************************************************************************)
(* C9, as claimed. DELETE /api/timers/:id for an id that has no            *)
(* ActiveTimer row answers 500.                                            *)
(***************************************************************************)
C9_MissingTimerAnswers500 ==
    \A id \in TimerIds :
        id \notin TimerIdsOf(db.activeTimers)
        => DeleteTimerHandler(db, id, 0).status = 500

(***************************************************************************)
(* C9, amended. DELETE /api/timers/:id answers 204 whenever the store does *)
(* not fail, also for an id that has no ActiveTimer row, and then leaves   *)
(* the activeTimers table unchanged; it answers 500 only when the store    *)
(* fails, and the table is unchanged then too.                             *)
(***************************************************************************)
C9_MissingTimerAnswers204 ==
    \A id \in TimerIds, fault \in 0..1 :
        LET o == DeleteTimerHandler(db, id, fault)
        IN /\ o.status = (IF fault = 0 THEN 204 ELSE 500)
           /\ (id \notin TimerIdsOf(db.activeTimers) \/ fault # 0) => o.db = db

\* a delete of a timer has answered 204 and changed nothing, with a timer in
\* the store: the id named no row
C9_Witness ==
    /\ last.op = "deleteTimer"
    /\ last.status = 204
    /\ ~last.changed
    /\ db.activeTimers # <<>>

(***************************************************************************)
(* C10. A POST /api/timers that answers 201 has appended exactly one row,  *)
(* under an id that no row of activeTimers had, and it answers 201         *)
(* whenever its id is unused and the store does not fail; after a DELETE   *)
(* /api/timers/:id that answers 204 no timer fetch-all returns has that    *)
(* id, and every other timer row is unchanged.                             *)
(***************************************************************************)
C10_TimerLifecycle ==
    /\ \A id \in TimerIds, body \in TimerBodies, fault \in 0..1 :
          LET o == PostTimerHandler(db, id, body, fault)
          IN /\ o.status = 201
                => /\ id \notin TimerIdsOf(db.activeTimers)
                   /\ o.db.activeTimers = Append(db.activeTimers, TimerRow(id, body))
             /\ (id \notin TimerIdsOf(db.activeTimers) /\ fault = 0) => o.status = 201
    /\ \A id \in TimerIds, fault \in 0..1 :
          LET o == DeleteTimerHandler(db, id, fault)
              all == FetchAll(o.db)
          IN o.status = 204
             => /\ \A i \in 1..Len(all.activeTimers) : all.activeTimers[i].id # id
                /\ o.db.activeTimers = SelectSeq(db.activeTimers, LAMBDA t : t.id # id)

\* a delete of a timer has answered 204 and removed it, and another timer is
\* still in the store
C10_Witness ==
    /\ last.op = "deleteTimer"
    /\ last.status = 204
    /\ last.changed
    /\ Len(db.activeTimers) = 1

(***************************************************************************)
(* The callback server: what an answered read has seen.                    *)
(***************************************************************************)
Requests(op) == {i \in 1..Len(reqs) : reqs[i].op = op}

AnsweredReads == {g \in Requests("getData") : reqs[g].status = 200}

\* the ids of the entries in the body of read g, and the employees it lists
\* for one of them
SeenIds(g) == {row.id : row \in Range(reqs[g].seen["entries"])}

SeenEmployees(g, id) == EmployeesOf(reqs[g].seen["entry_employees"], id)

\* C5: in the callback server a GET /api/data served while a POST
\* /api/entries is in progress never shows the new entry with fewer links
\* than the request's employees list: here, for every answered read and every
\* entry it shows that a create inserted, the employees the read lists are the
\* create's list (no employee of which was deleted by a request).
C5_ReadNeverSeesFewerLinks ==
    \A g \in AnsweredReads, p \in Requests("postEntry") :
        (/\ reqs[p].rid \in SeenIds(g)
         /\ reqs[p].body.employees.iterable
         /\ \A e \in Requests("deleteEmployee") :
               reqs[e].key \notin Range(reqs[p].body.employees.items))
        => SeenEmployees(g, reqs[p].rid) = reqs[p].body.employees.items

\* the lists submitted for entry id: by its create, and by the updates of it
SubmittedLists(id) ==
    {reqs[p].body.employees.items : p \in {q \in Requests("postEntry") : reqs[q].rid = id}}
    \cup {reqs[p].body.employees.items :
             p \in {q \in Requests("putEntry") : ParseInt(reqs[q].key) = id}}

\* C6: in the callback server a GET /api/data interleaved with a PUT
\* /api/entries/:id shows the entry with exactly its old link list or exactly
\* the new one, never an empty or a mixed list: every answered read lists, for
\* every entry whose updates all carried a list, one of the lists submitted
\* for it.
C6_ReadSeesOldOrNew ==
    \A g \in AnsweredReads : \A id \in SeenIds(g) :
        (\A p \in Requests("putEntry") :
            ParseInt(reqs[p].key) = id => reqs[p].body.employees.iterable)
        => SeenEmployees(g, id) \in SubmittedLists(id)

\* a read received while an update with a list other than the old one was
\* unanswered has been answered, showing the new list
C6_Witness ==
    \E g \in AnsweredReads, p \in Requests("putEntry") :
        /\ p < g
        /\ ~reqs[g].quiet
        /\ reqs[p].body.employees.iterable
        /\ reqs[p].body.employees.items # reqs[1].body.employees.items
        /\ SeenEmployees(g, ParseInt(reqs[p].key)) = reqs[p].body.employees.items

\* C7: once DELETE /api/employees/:name has answered 204, the store the
\* client can observe has no employees row and no entry_employees row with
\* that name: here for the callback server, for a delete that was received
\* when every other request had been answered and is the last one received.
C7_DeleteEmployeeRemovesLinks ==
    \A e \in Requests("deleteEmployee") :
        (reqs[e].status = 204 /\ reqs[e].quiet /\ e = Len(reqs))
        => /\ \A row \in db.employees : row.name # reqs[e].key
           /\ \A i \in DOMAIN db.entry_employees :
                 db.entry_employees[i].employee_name # reqs[e].key

(***************************************************************************)
(* C11. After DELETE /api/entries/:id answers 204 the store holds no       *)
(* entries row with that id and no entry_employees row with that entry_id, *)
(* and every other entry, the join rows of the other entries, the          *)
(* properties, the employees and the activeTimers are as they were.        *)
(***************************************************************************)
C11_DeleteEntryFrame ==
    \A path \in PathIds, fault \in 0..2 :
        LET o == DeleteEntryHandler(db, path, fault)
            id == ParseInt(path)
        IN o.status = 204
           => /\ id \notin EntryIds(o.db)
              /\ EmployeesOf(o.db.entry_employees, id) = <<>>
              /\ o.db.entries = {e \in db.entries : e.id # id}
              /\ LinksOfOthers(o.db, id) = LinksOfOthers(db, id)
              /\ o.db.properties = db.properties
              /\ o.db.employees = db.employees
              /\ o.db.activeTimers = db.activeTimers

\* two entries, and the delete of the one that has a join row answers 204
C11_Witness ==
    \E path \in PathIds :
        /\ Cardinality(db.entries) = 2
        /\ ParseInt(path) \in EntryIds(db)
        /\ EmployeesOf(db.entry_employees, ParseInt(path)) # <<>>
        /\ DeleteEntryHandler(db, path, 0).status = 204

\* the mappings a request may carry as services
ServiceKeys == {"mowing", "edging"}
ServiceValues == {"true", "false"}
AnyServiceMaps ==
    {m \in SeqsUpTo(ServiceKeys \X ServiceValues, 2) :
        \A i, j \in 1..Len(m) : m[i][1] = m[j][1] => i = j}
AnyPropertyBodies ==
    [fullName : FullNames, address : Addresses,
     services : {[defined |-> TRUE, pairs |-> m] : m \in AnyServiceMaps}]

\* the services fetch-all returns for the property id of store d
FetchedServices(d, id) ==
    {FetchAll(d).properties[i].services :
        i \in {j \in 1..Cardinality(d.properties) : FetchAll(d).properties[j].id = id}}

(***************************************************************************)
(* C13. The services mapping of a POST /api/properties that answers 201,   *)
(* and of a PUT /api/properties/:id that answers 200 on a property that    *)
(* exists, is the services fetch-all returns for that property afterwards. *)
(***************************************************************************)
C13_ServicesRoundTrip ==
    \A body \in AnyPropertyBodies :
        /\ LET o == PostPropertyHandler(db, body, 0)
           IN o.status = 201 => FetchedServices(o.db, o.rid) = {body.services}
        /\ \A path \in PathIds :
              LET o == PutPropertyHandler(db, path, body, 0)
              IN (o.status = 200 /\ \E p \in db.properties : p.id = ParseInt(path))
                 => FetchedServices(o.db, ParseInt(path)) = {body.services}

\* a property is in the store, and a create with a mapping of two members and
\* an update of the property to such a mapping both succeed
C13_Witness ==
    \E body \in AnyPropertyBodies, path \in PathIds :
        /\ Len(body.services.pairs) = 2
        /\ \E p \in db.properties : p.id = ParseInt(path)
        /\ PostPropertyHandler(db, body, 0).status = 201
        /\ PutPropertyHandler(db, path, body, 0).status = 200

(***************************************************************************)
(* C12. No two properties rows ever have the same address; a POST          *)
(* /api/properties with an address that a row has, and a PUT               *)
(* /api/properties/:id that would give a row the address of another row,   *)
(* answer 500 and leave the store as it was.                               *)
(***************************************************************************)
C12_AddressUnique ==
    /\ \A p1, p2 \in db.properties : p1.address = p2.address => p1 = p2
    /\ \A body \in AnyPropertyBodies :
          /\ (\E p \in db.properties : p.address = body.address)
             => /\ PostPropertyHandler(db, body, 0).status = 500
                /\ PostPropertyHandler(db, body, 0).db = db
          /\ \A path \in WidePaths :
                (/\ \E p \in db.properties : p.id = ParseInt(path)
                 /\ \E p \in db.properties :
                       p.id # ParseInt(path) /\ p.address = body.address)
                => /\ PutPropertyHandler(db, path, body, 0).status = 500
                   /\ PutPropertyHandler(db, path, body, 0).db = db

\* two properties, and the update of one to the address of the other answers 500
C12_Witness ==
    \E path \in WidePaths, body \in AnyPropertyBodies :
        /\ Cardinality(db.properties) = 2
        /\ \E p \in db.properties : p.id = ParseInt(path)
        /\ \E p \in db.properties : p.id # ParseInt(path) /\ p.address = body.address
        /\ PutPropertyHandler(db, path, body, 0).status = 500

(***************************************************************************)
(* The migration: the document of the run, and what the store holds of it. *)
(***************************************************************************)
\* the script has ended: nothing runs and nothing waits, or the process is down
Terminated == sched.down \/ (sched.running = {} /\ sched.queue = <<>>)

DistinctIdsAndAddresses(doc) ==
    /\ \A i, j \in 1..Len(doc.properties) :
          (doc.properties[i].id = doc.properties[j].id
           \/ doc.properties[i].address = doc.properties[j].address) => i = j
    /\ \A i, j \in 1..Len(doc.entries) :
          doc.entries[i].id = doc.entries[j].id => i = j

DistinctNames(doc) ==
    \A i, j \in 1..Len(doc.employees) : doc.employees[i] = doc.employees[j] => i = j

\* every legacy property and entry is in the store under its id, the times of
\* an entry are those of the casing it has, and its join rows are its list
Migrated(doc) ==
    /\ \A i \in 1..Len(doc.properties) :
          \E p \in db.properties :
             /\ p.id = doc.properties[i].id
             /\ p.address = doc.properties[i].address
             /\ p.fullName = doc.properties[i].fullName
    /\ \A i \in 1..Len(doc.entries) :
          LET e == doc.entries[i]
          IN /\ \E row \in db.entries :
                   /\ row.id = e.id
                   /\ row.date = e.date /\ row.propertyAddress = e.propertyAddress
                   /\ (e.timeIn = Absent => row.timeIn = e.TimeIn /\ row.timeOut = e.TimeOut)
                   /\ (e.TimeIn = Absent => row.timeIn = e.timeIn /\ row.timeOut = e.timeOut)
             /\ Range(EmployeesOf(db.entry_employees, e.id))
                   = (IF e.employees.listed THEN Range(e.employees.items) ELSE {})
             /\ (e.employees.items = <<>> => EmployeesOf(db.entry_employees, e.id) = <<>>)

(***************************************************************************)
(* C14, as claimed. After the migration script has run on a legacy         *)
(* document with pairwise-distinct ids and addresses into an empty schema, *)
(* every legacy property and entry is in the store under its original id,  *)
(* the join rows of every entry are its embedded employee list, and its    *)
(* times are those of the casing variant the entry has.                    *)
(***************************************************************************)
C14_MigrationPreserves ==
    (Terminated /\ DistinctIdsAndAddresses(reqs[1].body)) => Migrated(reqs[1].body)

(***************************************************************************)
(* C14, amended. The same for a legacy document whose employee names are   *)
(* pairwise distinct too.                                                  *)
(***************************************************************************)
C14_MigrationPreservesDistinct ==
    (/\ Terminated
     /\ DistinctIdsAndAddresses(reqs[1].body)
     /\ DistinctNames(reqs[1].body))
    => Migrated(reqs[1].body)

\* the script has ended on a document of two properties, two employees and two
\* entries, one of each casing, with join rows in the store
C14_Witness ==
    /\ Terminated /\ ~sched.down
    /\ DistinctIdsAndAddresses(reqs[1].body) /\ DistinctNames(reqs[1].body)
    /\ Len(reqs[1].body.properties) = 2
    /\ Len(reqs[1].body.employees) = 2
    /\ Len(reqs[1].body.entries) = 2
    /\ reqs[1].body.entries[1].TimeIn # reqs[1].body.entries[2].TimeIn
    /\ Len(db.entry_employees) = 4
    /\ Cardinality(db.entries) = 2

(***************************************************************************)
(* C15. Every tick starts one call of createBackup, which tries the        *)
(* directory once and the copy at most once (once when the directory       *)
(* succeeded); a failed call leaves the process up and the timer ticking,  *)
(* and takes no further step: nothing is tried again before the next tick. *)
(***************************************************************************)
C15_BackupPerTick ==
    /\ [](\A i \in DOMAIN reqs :
            /\ reqs[i].mkdirs <= 1 /\ reqs[i].copies <= 1
            /\ reqs[i].stage \in {"done", "failed"} => reqs[i].mkdirs = 1
            /\ reqs[i].stage = "done" => reqs[i].copies = 1
            /\ reqs[i].copies = 1 => reqs[i].mkdirs = 1)
    /\ [](~sched.down)
    /\ []((Len(reqs) < MaxTicks) => ENABLED BackupTick)
    /\ [][\A i \in DOMAIN reqs :
            reqs[i].stage \in {"done", "failed"} => reqs'[i] = reqs[i]]_vars

\* a backup has failed at the directory, one at the copy, and a later tick
\* has made a backup that succeeded
C15_Witness ==
    \E i, j, k \in DOMAIN reqs :
        /\ i < k /\ j < k
        /\ reqs[i].stage = "failed" /\ reqs[i].copies = 0
        /\ reqs[j].stage = "failed" /\ reqs[j].copies = 1
        /\ reqs[k].stage = "done"

(***************************************************************************)
(* C16. Transactional server: in every state reachable from the empty      *)
(* store the entry_id of every entry_employees row is the id of an entries *)
(* row.                                                                    *)
(***************************************************************************)
C16_NoOrphanLinks ==
    \A i \in DOMAIN db.entry_employees :
        db.entry_employees[i].entry_id \in EntryIds(db)

\* the ids no entries row of the store has, among those a path may name
MissingPaths == {path \in WidePaths : ParseInt(path) \notin EntryIds(db)}

(***************************************************************************)
(* C17. On a path id that names no entries row, PUT and DELETE             *)
(* /api/entries/:id create no entries row; DELETE answers 204 and leaves   *)
(* the store as it was; PUT with a list that is not empty either fails     *)
(* and leaves the store as it was, or adds no join row.                    *)
(***************************************************************************)
C17_MissingIdChangesNothing ==
    \A path \in MissingPaths :
        /\ DeleteEntryHandler(db, path, 0).status = 204
        /\ DeleteEntryHandler(db, path, 0).db = db
        /\ \A body \in WideEntryBodies :
              LET o == PutEntryHandler(db, path, body, 0)
              IN /\ o.db.entries = db.entries
                 /\ body.employees.items # <<>>
                    => \/ o.status = 500 /\ o.db = db
                       \/ o.db.entry_employees = db.entry_employees

\* how many elements of the sequence q satisfy Test
CountIn(q, Test(_)) == Cardinality({i \in DOMAIN q : Test(q[i])})

(***************************************************************************)
(* C18. Fetch-all returns every entries row once, by date descending and,  *)
(* for equal dates, by id descending, each with the employee names of the  *)
(* join rows of its id and no other (none: the empty list); the employees  *)
(* by name ascending; and the request leaves the store as it was.          *)
(***************************************************************************)
C18_FetchAllOrdered ==
    LET all == FetchAll(db)
    IN /\ Len(all.entries) = Cardinality(db.entries)
       /\ {all.entries[i].row : i \in DOMAIN all.entries} = db.entries
       /\ \A i, j \in DOMAIN all.entries :
             i < j => \/ all.entries[i].row.date > all.entries[j].row.date
                      \/ /\ all.entries[i].row.date = all.entries[j].row.date
                         /\ all.entries[i].row.id > all.entries[j].row.id
       /\ \A i \in DOMAIN all.entries : \A name \in AnyNames :
             CountIn(all.entries[i].employees, LAMBDA n : n = name)
               = CountIn(db.entry_employees,
                         LAMBDA l : l.entry_id = all.entries[i].row.id
                                    /\ l.employee_name = name)
       /\ Len(all.employees) = Cardinality(db.employees)
       /\ {all.employees[i] : i \in DOMAIN all.employees} = db.employees
       /\ \A i, j \in DOMAIN all.employees :
             i < j => NameRank(all.employees[i].name) < NameRank(all.employees[j].name)
       /\ \A fault \in 0..5 : GetDataHandler(db, fault).db = db

\* the entry of the smaller id has the later date, one of the two entries
\* has join rows and the other has none
C18_Witness ==
    \E e1, e2 \in db.entries :
        /\ e1.id < e2.id /\ e1.date > e2.date
        /\ EmployeesOf(db.entry_employees, e1.id) = <<"B", "A">>
        /\ EmployeesOf(db.entry_employees, e2.id) = <<>>

(***************************************************************************)
(* C19. Only POST /api/timers and DELETE /api/timers/:id change the        *)
(* activeTimers table: every other request leaves it as it was, also the   *)
(* delete of a property or of an employee that a timer names.              *)
(***************************************************************************)
C19_OnlyTimerRequestsChangeTimers ==
    [][last'.op \notin {"postTimer", "deleteTimer"}
         => db'.activeTimers = db.activeTimers]_vars

\* a delete of a property has answered 204 and removed the row, and a timer
\* at that address and with an employee is still in the store
C19_Witness ==
    /\ last.op = "deleteProperty"
    /\ last.status = 204
    /\ last.changed
    /\ \E i \in DOMAIN db.activeTimers :
          /\ \A p \in db.properties :
                p.address # db.activeTimers[i].propertyAddress
          /\ ParseList(db.activeTimers[i].employees) # <<>>

C21_DeleteEmployeeKeepsEntries ==
    \A name \in AnyNames, fault \in 0..2 :
        LET o == DeleteEmployeeHandler(db, name, fault)
            got == FetchAll(o.db).entries
        IN /\ o.db.entries = db.entries
           /\ o.db.properties = db.properties
           /\ o.db.activeTimers = db.activeTimers
           /\ o.status \in {204, 500}
           /\ o.status = 500 => o.db = db
           /\ o.status = 204
              => /\ o.db.employees = {e \in db.employees : e.name # name}
                 /\ o.db.entry_employees =
                       SelectSeq(db.entry_employees, LAMBDA l : l.employee_name # name)
                 /\ {got[i].row : i \in DOMAIN got} = db.entries
                 /\ Len(got) = Cardinality(db.entries)
                 /\ \A i \in DOMAIN got :
                       /\ got[i].employees =
                            SelectSeq(EmployeesOf(db.entry_employees, got[i].row.id),
                                      LAMBDA n : n # name)
                       /\ Range(EmployeesOf(db.entry_employees, got[i].row.id)) = {name}
                          => got[i].employees = <<>>

\* an employee who is the only one linked to a stored entry is deleted with a
\* 204 answer, and fetch-all still returns the entry, with no employees
C21_Witness ==
    \E name \in Names :
        /\ \E e \in db.employees : e.name = name
        /\ DeleteEmployeeHandler(db, name, 0).status = 204
        /\ \E row \in db.entries :
              /\ EmployeesOf(db.entry_employees, row.id) = <<name>>
              /\ \E i \in DOMAIN FetchAll(DeleteEmployeeHandler(db, name, 0).db).entries :
                    FetchAll(DeleteEmployeeHandler(db, name, 0).db).entries[i] =
                        [row |-> row, employees |-> <<>>]

====
